---- MODULE Spec2Model ----
(***************************************************************************)
(* Model of sample.go of network-go-manage-network-security-group: the     *)
(* name allocator (getUniqueResourceGroupName), the status-tracked         *)
(* executor (executeWithStatus) and the provisioning run of main with its  *)
(* deferred resource-group deletion and deferred os.Exit.                  *)
(*                                                                         *)
(* Strings that the code inspects byte by byte (resource-group names) are  *)
(* sequences of byte values, so that strings.HasPrefix, sort.Strings and   *)
(* fmt.Sprintf("%s%d") are computed as the Go runtime computes them.       *)
(***************************************************************************)
EXTENDS Integers, Sequences, FiniteSets, TLC

(***************************************************************************)
(* Bounds of the model.                                                    *)
(***************************************************************************)
\* largest integer suffix a listed resource group may carry
MaxSuffix == 10
\* largest value of the -delay flag
MaxDelay == 1

(***************************************************************************)
(* Byte strings.                                                           *)
(***************************************************************************)
\* "networkSecurityGroupSample"
resourceGroupNamePrefix ==
  <<110, 101, 116, 119, 111, 114, 107, 83, 101, 99, 117, 114, 105, 116, 121,
    71, 114, 111, 117, 112, 83, 97, 109, 112, 108, 101>>

\* strconv of a non-negative integer, as the verb %d prints it
RECURSIVE Itoa(_)
Itoa(n) == IF n < 10 THEN <<48 + n>> ELSE Itoa(n \div 10) \o <<48 + (n % 10)>>

\* fmt.Sprintf("%s%d", resourceGroupNamePrefix, i)
Sprintf(p, i) == p \o Itoa(i)

\* strings.HasPrefix
HasPrefix(s, p) == Len(s) >= Len(p) /\ SubSeq(s, 1, Len(p)) = p

\* the < of Go strings: bytewise lexicographic
StrLess(a, b) ==
  LET n == IF Len(a) < Len(b) THEN Len(a) ELSE Len(b)
      d == {i \in 1..n : a[i] # b[i]}
  IN  IF d = {} THEN Len(a) < Len(b)
      ELSE LET k == CHOOSE i \in d : \A j \in d : i <= j IN a[k] < b[k]

\* insertion of x into an ascending sequence
RECURSIVE Insert(_, _)
Insert(x, s) ==
  IF s = <<>> THEN <<x>>
  ELSE IF StrLess(Head(s), x) THEN <<Head(s)>> \o Insert(x, Tail(s))
  ELSE <<x>> \o s

\* sort.Strings
RECURSIVE SortStrings(_)
SortStrings(s) == IF s = <<>> THEN <<>> ELSE Insert(Head(s), SortStrings(Tail(s)))

\* the loop of lines 669-674: the names that carry the prefix, in list order
RECURSIVE Seen(_)
Seen(value) ==
  IF value = <<>> THEN <<>>
  ELSE IF HasPrefix(Head(value), resourceGroupNamePrefix)
       THEN <<Head(value)>> \o Seen(Tail(value))
       ELSE Seen(Tail(value))

\* the loop of lines 678-683 from index i on: the first candidate that differs
\* from the sorted name at its position, else prefix + (len(seen)-1)
RECURSIVE Scan(_, _)
Scan(seen, i) ==
  IF i < Len(seen) - 1
  THEN IF seen[i + 2] # Sprintf(resourceGroupNamePrefix, i)
       THEN Sprintf(resourceGroupNamePrefix, i)
       ELSE Scan(seen, i + 1)
  ELSE Sprintf(resourceGroupNamePrefix, Len(seen) - 1)

Nil == "nil"
StatusOK == 200

\* line 676 without the comparison of seen[0] with the prefix
getUniqueResourceGroupName_anyOnly(listErr, listStatus, value) ==
  IF listErr # Nil THEN [name |-> <<>>, err |-> listErr]
  ELSE IF listStatus = StatusOK
  THEN LET seen == SortStrings(Seen(value))
       IN  IF seen # <<>>
           THEN [name |-> Scan(seen, 0), err |-> Nil]
           ELSE [name |-> resourceGroupNamePrefix, err |-> Nil]
  ELSE [name |-> <<>>, err |-> "Bad response"]

\* line 666 left out: the listing is used whatever its status
getUniqueResourceGroupName_anyStatus(listErr, listStatus, value) ==
  IF listErr # Nil THEN [name |-> <<>>, err |-> listErr]
  ELSE LET seen == SortStrings(Seen(value))
       IN  IF seen # <<>> /\ seen[1] = resourceGroupNamePrefix
           THEN [name |-> Scan(seen, 0), err |-> Nil]
           ELSE [name |-> resourceGroupNamePrefix, err |-> Nil]

\* getUniqueResourceGroupName: the (name, error) pair for a listing call that
\* returned listErr, listStatus and the names value
getUniqueResourceGroupName(listErr, listStatus, value) ==
  IF listErr # Nil THEN [name |-> <<>>, err |-> listErr]
  ELSE IF listStatus = StatusOK
  THEN LET seen == SortStrings(Seen(value))
       IN  IF seen # <<>> /\ seen[1] = resourceGroupNamePrefix
           THEN [name |-> Scan(seen, 0), err |-> Nil]
           ELSE [name |-> resourceGroupNamePrefix, err |-> Nil]
  ELSE [name |-> <<>>, err |-> "Bad response"]

\* getResourceGroupName, the allocator of the first program variant: the same
\* listing, filter, sort and scan
getResourceGroupName(listErr, listStatus, value) ==
  IF listErr # Nil THEN [name |-> <<>>, err |-> listErr]
  ELSE IF listStatus = StatusOK
  THEN LET seen == SortStrings(Seen(value))
       IN  IF seen # <<>> /\ seen[1] = resourceGroupNamePrefix
           THEN [name |-> Scan(seen, 0), err |-> Nil]
           ELSE [name |-> resourceGroupNamePrefix, err |-> Nil]
  ELSE [name |-> <<>>, err |-> "Bad response"]

(***************************************************************************)
(* Credentials and flags.                                                  *)
(***************************************************************************)
GuidD == "9f1c2b7e-5a3d-4c6f-8e21-0b4d7a6c3e10"
GuidB == "{9f1c2b7e-5a3d-4c6f-8e21-0b4d7a6c3e10}"
\* values the three identifier variables of the environment may hold
IdValues == {"", "not-a-guid", GuidD, GuidB}
\* values AZURE_CLIENT_SECRET may hold
SecretValues == {"", "s3cret"}

\* guid.Parse returns a nil error: the text is a GUID in one of its formats
guidParseOK(s) == s \in {GuidD, GuidB}
\* parsed.Stringf(guid.FormatD): the canonical text of the parsed value
Stringf(s) == IF s = GuidB THEN GuidD ELSE s

\* an absent identifier is let through
validateID_absentOK(v, envVarName) ==
  IF v # "" /\ ~guidParseOK(v) THEN [errs |-> <<"not a Uuid " \o envVarName>>, val |-> v]
  ELSE [errs |-> <<>>, val |-> Stringf(v)]

\* one identifier branch of validateParameters: the error it appends (if any)
\* and the value the variable holds afterwards
validateID(v, envVarName) ==
  IF v = "" THEN [errs |-> <<"missing " \o envVarName>>, val |-> v]
  ELSE IF ~guidParseOK(v) THEN [errs |-> <<"not a Uuid " \o envVarName>>, val |-> v]
  ELSE [errs |-> <<>>, val |-> Stringf(v)]

\* validateParameters: all errors are collected, valid identifiers normalised
validateParameters(t, s, c, secret) ==
  LET vt == validateID(t, "AZURE_TENANT_ID")
      vs == validateID(s, "AZURE_SUBSCRIPTION_ID")
      vc == validateID(c, "AZURE_CLIENT_ID")
      se == IF secret = "" THEN <<"missing AZURE_CLIENT_SECRET">> ELSE <<>>
  IN  [errs |-> vt.errs \o vs.errs \o vc.errs \o se,
       tenantID |-> vt.val, subscriptionID |-> vs.val, clientID |-> vc.val]

(***************************************************************************)
(* Exit status codes (the iota block).                                     *)
(***************************************************************************)
ExitSuccess == 0
ExitAuthenticationFailure == 1
ExitResourceGroupCreationFailure == 2
ExitVirtualNetworkCreationFailure == 3
ExitNetworkSecuritryGroupCreationFailure == 4
ExitSecurityRuleCreationFailure == 5
ExitSubnetCreationFailure == 6

(***************************************************************************)
(* Remote calls.  A call returns an error (or nil) and a status code; the  *)
(* code compares the status with http.StatusOK only.                       *)
(***************************************************************************)
\* 200 OK, 201 Created, 500 Internal Server Error
Statuses == {StatusOK, 201, 500}
RemoteError == "remote error"
\* the (error, status) pairs a remote call may return
Outcomes == [err : {Nil, RemoteError}, status : Statuses]
\* the remote call did what was asked: no error and status 200
Succeeded(o) == o.err = Nil /\ o.status = StatusOK

networkName == "sampleVirtualNetwork"

VARIABLES
  pc,                \* position of the run
  help, pause, delay,\* the flags, as flag.Parse left them
  tenantID, subscriptionID, clientID, clientSecret,
  token,             \* "nil" or the service principal token
  successfulInit,    \* the flag init of the first program variant sets
  output,            \* the writer status messages go to
  existing,          \* the resource-group names the subscription holds
  groupList,         \* the error and status client.List returned
  exitStatus,        \* main's exitStatus
  err,               \* main's err
  resourceGroupName, \* main's resourceGroupName
  defers,            \* main's stack of deferred calls, last registered last
  trace,             \* remote calls and status messages, in issue order
  exec,              \* the latest executeWithStatus: what the operation
                     \* returned, what was reported, what was returned
  exited             \* the code os.Exit was called with, -1 before

vars == <<pc, help, pause, delay, tenantID, subscriptionID, clientID,
          clientSecret, token, successfulInit, output, existing, groupList,
          exitStatus, err,
          resourceGroupName, defers, trace, exec, exited>>

flagVars == <<help, pause, delay>>
credVars == <<tenantID, subscriptionID, clientID, clientSecret, token, successfulInit,
             output>>

\* a remote call in the trace
Call(op, rg, vnet, nsg, name, prio, ok) ==
  [kind |-> "call", op |-> op, rg |-> rg, vnet |-> vnet, nsg |-> nsg,
   name |-> name, prio |-> prio, ok |-> ok]
\* a status message written to output
Out(text, rg, name) ==
  [kind |-> "out", op |-> text, rg |-> rg, vnet |-> "", nsg |-> "",
   name |-> name, prio |-> 0, ok |-> TRUE]

\* client.List has not been called
NoList == [err |-> Nil, status |-> 0]

NoExec == [label |-> "", err |-> Nil, status |-> 0, report |-> "",
           retErr |-> Nil, retStatus |-> 0]

\* line 696 with || in place of &&
Report_either(e, status) == IF e = Nil \/ status = StatusOK THEN "SUCCESS" ELSE "FAILED"

\* the branch of executeWithStatus at line 696
Report(e, status) == IF e = Nil /\ status = StatusOK THEN "SUCCESS" ELSE "FAILED"

\* executeWithStatus with a failed operation invoked a second time
executeWithStatus_retry(c, o, label, rg, name) ==
  [events |-> <<Out(label \o "...", rg, name), c>>
              \o (IF Report(o.err, o.status) = "FAILED" THEN <<c>> ELSE <<>>)
              \o <<Out(Report(o.err, o.status), rg, name)>>,
   exec   |-> [label |-> label, err |-> o.err, status |-> o.status,
               report |-> Report(o.err, o.status),
               retErr |-> o.err, retStatus |-> o.status],
   err    |-> o.err]

\* executeWithStatus turning a FAILED report into a returned error
executeWithStatus_statusToError(c, o, label, rg, name) ==
  LET e == IF o.err = Nil /\ Report(o.err, o.status) = "FAILED" THEN "Bad status" ELSE o.err
  IN  [events |-> <<Out(label \o "...", rg, name), c, Out(Report(o.err, o.status), rg, name)>>,
       exec   |-> [label |-> label, err |-> o.err, status |-> o.status,
                   report |-> Report(o.err, o.status),
                   retErr |-> e, retStatus |-> o.status],
       err    |-> e]

\* executeWithStatus(operation, message): the marker, the one invocation of the
\* operation (the call c, which returned o), the report, and the pair returned
executeWithStatus(c, o, label, rg, name) ==
  [events |-> <<Out(label \o "...", rg, name), c, Out(Report(o.err, o.status), rg, name)>>,
   exec   |-> [label |-> label, err |-> o.err, status |-> o.status,
               report |-> Report(o.err, o.status),
               retErr |-> o.err, retStatus |-> o.status],
   err    |-> o.err]

(***************************************************************************)
(* The run: init, then main, then main's deferred calls.                   *)
(***************************************************************************)
\* listings the provisioning run may meet: an unused subscription, and one
\* where the bare name and suffix 0 are taken beside an unrelated group
Other == <<111, 116, 104, 101, 114>>
MainListings ==
  { <<>>,
    <<Other, Sprintf(resourceGroupNamePrefix, 0), resourceGroupNamePrefix>> }

Init ==
  /\ pc = "init"
  /\ help = FALSE /\ pause = FALSE /\ delay = 0
  /\ tenantID = "" /\ subscriptionID = "" /\ clientID = "" /\ clientSecret = ""
  /\ token = Nil
  /\ successfulInit = FALSE
  /\ output = Nil
  /\ existing \in MainListings
  /\ groupList = NoList
  /\ exitStatus = ExitSuccess
  /\ err = Nil
  /\ resourceGroupName = <<>>
  /\ defers = <<>>
  /\ trace = <<>>
  /\ exec = NoExec
  /\ exited = -1

runVars == <<exitStatus, err, resourceGroupName, defers, trace, exec, exited, existing,
            groupList>>

\* init (lines 501-545): read the environment and the flags, validate, and
\* obtain the token.  authErr is what adal.NewOAuthConfig or
\* adal.NewServicePrincipalToken answered.
init ==
  /\ pc = "init"
  /\ \E t \in IdValues, s \in IdValues, c \in IdValues, secret \in SecretValues,
        h \in BOOLEAN, p \in BOOLEAN, d \in 0..MaxDelay, useQuiet \in BOOLEAN,
        authErr \in {Nil, "oauth config error", "token error"} :
       LET v == validateParameters(t, s, c, secret) IN
       /\ help' = h /\ pause' = p /\ delay' = d
       /\ clientSecret' = secret
       /\ successfulInit' = successfulInit
       /\ IF h
          THEN /\ tenantID' = t /\ subscriptionID' = s /\ clientID' = c
               /\ output' = Nil /\ token' = Nil
          ELSE /\ output' = IF useQuiet THEN "ioutil.Discard" ELSE "os.Stdout"
               /\ tenantID' = v.tenantID
               /\ subscriptionID' = v.subscriptionID
               /\ clientID' = v.clientID
               /\ token' = IF Len(v.errs) > 0 \/ authErr # Nil THEN Nil
                           ELSE "ServicePrincipalToken"
  /\ pc' = "main"
  /\ UNCHANGED runVars

\* main returns: its deferred calls run next
Return == "return"

\* main with the authentication check placed before the help check
main_authenticationFirst ==
  /\ pc = "main"
  /\ defers' = Append(defers, [fn |-> "os.Exit", name |-> <<>>])
  /\ IF token = Nil
     THEN /\ pc' = Return
          /\ exitStatus' = ExitAuthenticationFailure
     ELSE IF help
     THEN /\ pc' = Return
          /\ exitStatus' = exitStatus
     ELSE /\ pc' = "createResourceGroup"
          /\ exitStatus' = exitStatus
  /\ UNCHANGED <<flagVars, credVars, existing, groupList, err, resourceGroupName, trace, exec, exited>>

\* main, lines 297-312: register the deferred os.Exit, then the help and the
\* authentication checks
main ==
  /\ pc = "main"
  /\ defers' = Append(defers, [fn |-> "os.Exit", name |-> <<>>])
  /\ IF help
     THEN /\ pc' = Return
          /\ exitStatus' = exitStatus
     ELSE IF token = Nil
     THEN /\ pc' = Return
          /\ exitStatus' = ExitAuthenticationFailure
     ELSE /\ pc' = "createResourceGroup"
          /\ exitStatus' = exitStatus
  /\ UNCHANGED <<flagVars, credVars, existing, groupList, err, resourceGroupName, trace, exec, exited>>

\* createResourceGroup (lines 561-584): the (name, error) pair it returns and
\* the calls and messages it issues, for a listing call that returned lo and
\* the names value, and a create call that returned co
createResourceGroup(lo, value, co) ==
  LET u == getUniqueResourceGroupName(lo.err, lo.status, value)
      list == Call("List", <<>>, "", "", "", 0, Succeeded(lo))
  IN  IF u.err # Nil
      THEN [name |-> u.name, err |-> u.err, events |-> <<list>>]
      ELSE IF co.err # Nil
      THEN [name |-> <<>>, err |-> co.err,
            events |-> <<list,
                         Out("Creating Resource Group...", u.name, ""),
                         Call("CreateResourceGroup", u.name, "", "", "", 0, Succeeded(co)),
                         Out("FAILED", u.name, "")>>]
      ELSE [name |-> u.name, err |-> co.err,
            events |-> <<list,
                         Out("Creating Resource Group...", u.name, ""),
                         Call("CreateResourceGroup", u.name, "", "", "", 0, Succeeded(co)),
                         Out("SUCCESS", u.name, "")>>]

\* the defer statement placed before the error check
registerDeletion_unchecked(d, r) ==
  Append(d, [fn |-> "deleteResourceGroup", name |-> r.name])

\* main, lines 320-324: the deferred deletion is registered only past the
\* error check, with the name createResourceGroup returned
registerDeletion(d, r) ==
  IF r.err # Nil THEN d
  ELSE Append(d, [fn |-> "deleteResourceGroup", name |-> r.name])

\* main, lines 318-324: create the resource group; on success register the
\* deferred deletion
main_createResourceGroup ==
  /\ pc = "createResourceGroup"
  /\ \E lo \in Outcomes, co \in Outcomes :
       LET r == createResourceGroup(lo, existing, co) IN
       /\ groupList' = lo
       /\ trace' = trace \o r.events
       /\ resourceGroupName' = r.name
       /\ err' = r.err
       /\ defers' = registerDeletion(defers, r)
       /\ IF r.err # Nil
          THEN /\ exitStatus' = ExitResourceGroupCreationFailure
               /\ pc' = Return
          ELSE /\ exitStatus' = exitStatus
               /\ pc' = "createVirtualNetwork"
  /\ UNCHANGED <<flagVars, credVars, existing, exec, exited>>

\* createVirtualNetwork (lines 594-615): one executeWithStatus around the
\* CreateOrUpdate call; its error is the operation's error
createVirtualNetwork(rg, o) ==
  executeWithStatus(Call("CreateVirtualNetwork", rg, networkName, "", networkName, 0, Succeeded(o)),
                    o, "Creating Virtual Network", rg, networkName)

\* main, lines 326-331
main_createVirtualNetwork ==
  /\ pc = "createVirtualNetwork"
  /\ \E o \in Outcomes :
       LET r == createVirtualNetwork(resourceGroupName, o) IN
       /\ trace' = trace \o r.events
       /\ exec' = r.exec
       /\ err' = r.err
       /\ IF r.err # Nil
          THEN exitStatus' = ExitVirtualNetworkCreationFailure /\ pc' = Return
          ELSE exitStatus' = exitStatus /\ pc' = "frontEndNSG"
  /\ UNCHANGED <<flagVars, credVars, existing, groupList, resourceGroupName, defers, exited>>

\* the errors securityGroupsClient.Get may return; its status is never read
GetErrors == {Nil, RemoteError}

\* createNetworkSecurityGroup returning the create call's error when there is one
createNetworkSecurityGroup_createError(rg, name, o, getErr) ==
  LET x == executeWithStatus(Call("CreateSecurityGroup", rg, "", name, name, 0, Succeeded(o)),
                             o, "Creating Network Security Group", rg, name)
  IN  [events |-> x.events \o <<Call("GetSecurityGroup", rg, "", name, name, 0, getErr = Nil)>>,
       exec   |-> x.exec,
       err    |-> IF x.err # Nil THEN x.err ELSE getErr]

\* createNetworkSecurityGroup (lines 547-559): executeWithStatus around the
\* create call, whose error is dropped, then a Get whose error is returned
createNetworkSecurityGroup(rg, name, o, getErr) ==
  LET x == executeWithStatus(Call("CreateSecurityGroup", rg, "", name, name, 0, Succeeded(o)),
                             o, "Creating Network Security Group", rg, name)
  IN  [events |-> x.events \o <<Call("GetSecurityGroup", rg, "", name, name, 0, getErr = Nil)>>,
       exec   |-> x.exec,
       err    |-> getErr]

\* main, lines 337-341 (frontend) and 343-347 (backend)
main_createNetworkSecurityGroup(at, name, next) ==
  /\ pc = at
  /\ \E o \in Outcomes, getErr \in GetErrors :
       LET r == createNetworkSecurityGroup(resourceGroupName, name, o, getErr) IN
       /\ trace' = trace \o r.events
       /\ exec' = r.exec
       /\ err' = r.err
       /\ IF r.err # Nil
          THEN exitStatus' = ExitNetworkSecuritryGroupCreationFailure /\ pc' = Return
          ELSE exitStatus' = exitStatus /\ pc' = next
  /\ UNCHANGED <<flagVars, credVars, existing, groupList, resourceGroupName, defers, exited>>

main_frontEndNSG == main_createNetworkSecurityGroup("frontEndNSG", "frontend", "backEndNSG")
main_backEndNSG == main_createNetworkSecurityGroup("backEndNSG", "backend", "frontendSubnet")

\* main, lines 371-379 (frontend) and 381-388 (backend): a subnet of the
\* virtual network, bound to its security group
main_createSubnet(at, name, nsg, next) ==
  /\ pc = at
  /\ \E o \in Outcomes :
       LET r == executeWithStatus(
                  Call("CreateSubnet", resourceGroupName, networkName, nsg, name, 0, Succeeded(o)),
                  o, "Creating Subnet", resourceGroupName, name) IN
       /\ trace' = trace \o r.events
       /\ exec' = r.exec
       /\ err' = r.err
       /\ IF r.err # Nil
          THEN exitStatus' = ExitSubnetCreationFailure /\ pc' = Return
          ELSE exitStatus' = exitStatus /\ pc' = next
  /\ UNCHANGED <<flagVars, credVars, existing, groupList, resourceGroupName, defers, exited>>

main_frontendSubnet == main_createSubnet("frontendSubnet", "frontendSubnet", "frontend", "backendSubnet")
main_backendSubnet == main_createSubnet("backendSubnet", "backendSubnet", "backend", "ALLOW-SSH")

\* the Direction of the rule created under a name (lines 407, 431, 456, 476)
ruleDirection(name) ==
  IF name = "DENY-OUT" THEN "Outbound" ELSE "Inbound"

\* a security-rule creation through executeWithStatus
createSecurityRule(rg, nsg, name, prio, o) ==
  executeWithStatus(Call("CreateSecurityRule", rg, "", nsg, name, prio, Succeeded(o)),
                    o, "Creating Security Rule", rg, name)

\* main, lines 416-423: the first rule; its error is assigned and checked
main_frontendSSHRule ==
  /\ pc = "ALLOW-SSH"
  /\ \E o \in Outcomes :
       LET r == createSecurityRule(resourceGroupName, "frontend", "ALLOW-SSH", 100, o) IN
       /\ trace' = trace \o r.events
       /\ exec' = r.exec
       /\ err' = r.err
       /\ IF r.err # Nil
          THEN exitStatus' = ExitSecurityRuleCreationFailure /\ pc' = Return
          ELSE exitStatus' = exitStatus /\ pc' = "ALLOW-HTTP"
  /\ UNCHANGED <<flagVars, credVars, existing, groupList, resourceGroupName, defers, exited>>

\* the second rule with its error assigned to err, as for the first rule
main_frontendHTTPRule_checked ==
  /\ pc = "ALLOW-HTTP"
  /\ \E o \in Outcomes :
       LET r == createSecurityRule(resourceGroupName, "frontend", "ALLOW-HTTP", 101, o) IN
       /\ trace' = trace \o r.events
       /\ exec' = r.exec
       /\ err' = r.err
       /\ IF r.err # Nil
          THEN exitStatus' = ExitSecurityRuleCreationFailure /\ pc' = Return
          ELSE exitStatus' = exitStatus /\ pc' = "ALLOW-SQL"
  /\ UNCHANGED <<flagVars, credVars, existing, groupList, resourceGroupName, defers, exited>>

\* the second rule given the priority of the first
main_frontendHTTPRule_priority100 ==
  /\ pc = "ALLOW-HTTP"
  /\ \E o \in Outcomes :
       LET r == createSecurityRule(resourceGroupName, "frontend", "ALLOW-HTTP", 100, o) IN
       /\ trace' = trace \o r.events
       /\ exec' = r.exec
  /\ IF err # Nil
     THEN exitStatus' = ExitSecurityRuleCreationFailure /\ pc' = Return
     ELSE exitStatus' = exitStatus /\ pc' = "ALLOW-SQL"
  /\ UNCHANGED <<flagVars, credVars, existing, groupList, err, resourceGroupName, defers, exited>>

\* main, lines 440-448: the second rule; the result is dropped and the check
\* that follows reads the err of the first rule
main_frontendHTTPRule ==
  /\ pc = "ALLOW-HTTP"
  /\ \E o \in Outcomes :
       LET r == createSecurityRule(resourceGroupName, "frontend", "ALLOW-HTTP", 101, o) IN
       /\ trace' = trace \o r.events
       /\ exec' = r.exec
  /\ IF err # Nil
     THEN exitStatus' = ExitSecurityRuleCreationFailure /\ pc' = Return
     ELSE exitStatus' = exitStatus /\ pc' = "ALLOW-SQL"
  /\ UNCHANGED <<flagVars, credVars, existing, groupList, err, resourceGroupName, defers, exited>>

\* main, lines 465-468 and 485-488: the backend rules; the result is dropped
main_backendRule(at, name, prio, next) ==
  /\ pc = at
  /\ \E o \in Outcomes :
       LET r == createSecurityRule(resourceGroupName, "backend", name, prio, o) IN
       /\ trace' = trace \o r.events
       /\ exec' = r.exec
  /\ pc' = next
  /\ UNCHANGED <<flagVars, credVars, existing, groupList, exitStatus, err, resourceGroupName, defers, exited>>

\* the outbound rule left out
main_backendSQLRule_last == main_backendRule("ALLOW-SQL", "ALLOW-SQL", 100, "wait")
main_backendSQLRule == main_backendRule("ALLOW-SQL", "ALLOW-SQL", 100, "DENY-OUT")
main_backendOutboundRule == main_backendRule("DENY-OUT", "DENY-OUT", 100, "wait")

\* the wait with the delay tested before the pause flag
main_wait_delayFirst ==
  /\ pc = "wait"
  /\ pc' = IF delay > 0 THEN "Sleep" ELSE IF pause THEN "Scanln" ELSE Return
  /\ UNCHANGED <<flagVars, credVars, runVars>>

\* main, lines 491-498: the optional wait before main returns
main_wait ==
  /\ pc = "wait"
  /\ pc' = IF pause THEN "Scanln" ELSE IF delay > 0 THEN "Sleep" ELSE Return
  /\ UNCHANGED <<flagVars, credVars, runVars>>

\* fmt.Scanln returns: the operator pressed Enter
main_acknowledged ==
  /\ pc = "Scanln"
  /\ pc' = Return
  /\ UNCHANGED <<flagVars, credVars, runVars>>

\* time.Sleep returns
main_slept ==
  /\ pc = "Sleep"
  /\ pc' = Return
  /\ UNCHANGED <<flagVars, credVars, runVars>>

\* deleteResourceGroup (lines 586-592): executeWithStatus around Delete
deleteResourceGroup(name, o) ==
  executeWithStatus(Call("DeleteResourceGroup", name, "", "", "", 0, Succeeded(o)),
                    o, "Deleting Resource Group", name, "")

\* deferred calls run in registration order
nextDeferred_fifo(d) == 1

\* the deferred call that runs next when main returns: deferred calls run in
\* the reverse of the order the defer statements (lines 299, 324) registered them
nextDeferred(d) == Len(d)

\* without(d, k): the stack d once its k-th call has run
without(d, k) == SubSeq(d, 1, k - 1) \o SubSeq(d, k + 1, Len(d))

\* the deferred deletion with its returned error turned into an exit status
deferred_deleteResourceGroup_escalates ==
  /\ pc = Return
  /\ defers # <<>>
  /\ defers[nextDeferred(defers)].fn = "deleteResourceGroup"
  /\ \E o \in Outcomes :
       LET r == deleteResourceGroup(defers[nextDeferred(defers)].name, o) IN
       /\ trace' = trace \o r.events
       /\ exec' = r.exec
       /\ exitStatus' = IF r.err # Nil THEN ExitResourceGroupCreationFailure ELSE exitStatus
  /\ defers' = without(defers, nextDeferred(defers))
  /\ UNCHANGED <<pc, flagVars, credVars, existing, groupList, err, resourceGroupName, exited>>

\* the deferred deletion of line 324 runs, with the name it was registered with
deferred_deleteResourceGroup ==
  /\ pc = Return
  /\ defers # <<>>
  /\ defers[nextDeferred(defers)].fn = "deleteResourceGroup"
  /\ \E o \in Outcomes :
       LET r == deleteResourceGroup(defers[nextDeferred(defers)].name, o) IN
       /\ trace' = trace \o r.events
       /\ exec' = r.exec
  /\ defers' = without(defers, nextDeferred(defers))
  /\ UNCHANGED <<pc, flagVars, credVars, existing, groupList, exitStatus, err, resourceGroupName, exited>>

\* (lines 299-301: os.Exit(exitStatus); the process ends there)
deferred_exit ==
  /\ pc = Return
  /\ defers # <<>>
  /\ defers[nextDeferred(defers)].fn = "os.Exit"
  /\ exited' = exitStatus
  /\ pc' = "exited"
  /\ UNCHANGED <<flagVars, credVars, existing, groupList, exitStatus, err, resourceGroupName, defers, trace, exec>>

Next ==
  \/ init
  \/ main
  \/ main_createResourceGroup
  \/ main_createVirtualNetwork
  \/ main_frontEndNSG
  \/ main_backEndNSG
  \/ main_frontendSubnet
  \/ main_backendSubnet
  \/ main_frontendSSHRule
  \/ main_frontendHTTPRule
  \/ main_backendSQLRule
  \/ main_backendOutboundRule
  \/ main_wait
  \/ main_acknowledged
  \/ main_slept
  \/ deferred_deleteResourceGroup
  \/ deferred_exit

Spec == Init /\ [][Next]_vars

(***************************************************************************)
(* The name allocator on its own: a listing is drawn, then allocated from. *)
(***************************************************************************)
\* suffixed names that are not prefix + decimal integer, and an unrelated name:
\* prefix"-", prefix"00", prefix"A"
ExtraNames ==
  << resourceGroupNamePrefix \o <<45>>,
     resourceGroupNamePrefix \o <<48, 48>>,
     resourceGroupNamePrefix \o <<65>>,
     Other >>

\* the names prefix<n>, n in nums and n <= k, highest first
RECURSIVE NumberedNames(_, _)
NumberedNames(nums, k) ==
  IF k < 0 THEN <<>>
  ELSE (IF k \in nums THEN <<Sprintf(resourceGroupNamePrefix, k)>> ELSE <<>>)
       \o NumberedNames(nums, k - 1)

RECURSIVE PickExtras(_, _)
PickExtras(picked, k) ==
  IF k = 0 THEN <<>>
  ELSE PickExtras(picked, k - 1) \o (IF k \in picked THEN <<ExtraNames[k]>> ELSE <<>>)

RECURSIVE Reverse(_)
Reverse(s) == IF s = <<>> THEN <<>> ELSE Reverse(Tail(s)) \o <<Head(s)>>

\* a listing: distinct names, in one of two orders
Listing(bare, nums, picked, rev) ==
  LET s == PickExtras(picked, Len(ExtraNames)) \o NumberedNames(nums, MaxSuffix)
           \o (IF bare THEN <<resourceGroupNamePrefix>> ELSE <<>>)
  IN  IF rev THEN Reverse(s) ELSE s

InitAlloc ==
  /\ pc = "alloc"
  /\ help = FALSE /\ pause = FALSE /\ delay = 0
  /\ tenantID = GuidD /\ subscriptionID = GuidD /\ clientID = GuidD
  /\ clientSecret = "s3cret"
  /\ token = "ServicePrincipalToken"
  /\ successfulInit = FALSE
  /\ output = "os.Stdout"
  /\ \E bare \in BOOLEAN, nums \in SUBSET (0..MaxSuffix),
        picked \in SUBSET (1..Len(ExtraNames)), rev \in BOOLEAN :
       existing = Listing(bare, nums, picked, rev)
  /\ groupList = NoList
  /\ exitStatus = ExitSuccess
  /\ err = Nil
  /\ resourceGroupName = <<>>
  /\ defers = <<>>
  /\ trace = <<>>
  /\ exec = NoExec
  /\ exited = -1

\* the allocator of the second variant is applied to the listing
allocate ==
  /\ pc = "alloc"
  /\ \E lo \in Outcomes :
       LET u == getUniqueResourceGroupName(lo.err, lo.status, existing) IN
       /\ groupList' = lo
       /\ resourceGroupName' = u.name
       /\ err' = u.err
       /\ trace' = <<Call("List", <<>>, "", "", "", 0, Succeeded(lo))>>
  /\ pc' = "allocated"
  /\ UNCHANGED <<flagVars, credVars, existing, exitStatus, defers, exec, exited>>

\* the allocator of the first variant is applied to the listing
allocate_first ==
  /\ pc = "alloc"
  /\ \E lo \in Outcomes :
       LET u == getResourceGroupName(lo.err, lo.status, existing) IN
       /\ groupList' = lo
       /\ resourceGroupName' = u.name
       /\ err' = u.err
       /\ trace' = <<Call("List", <<>>, "", "", "", 0, Succeeded(lo))>>
  /\ pc' = "allocated"
  /\ UNCHANGED <<flagVars, credVars, existing, exitStatus, defers, exec, exited>>

NextAlloc == allocate \/ allocate_first

SpecAlloc == InitAlloc /\ [][NextAlloc]_vars

\* the names of a listing, as a set
Names(value) == {value[i] : i \in 1..Len(value)}
\* the listed names that carry the prefix
Prefixed(value) == {n \in Names(value) : HasPrefix(n, resourceGroupNamePrefix)}

\* C1: after a successful (status 200) listing, the allocated name equals none
\* of the listed names
C1_NameNeverCollides ==
  (pc = "allocated" /\ err = Nil /\ trace[1].ok) => resourceGroupName \notin Names(existing)

\* C10: when the listing holds the bare prefix and exactly the run
\* prefix0..prefixK of suffixed names, the allocated name is prefix(K+1)
C10_DenseRunGivesNext ==
  \A k \in 0..MaxSuffix :
    (/\ pc = "allocated" /\ err = Nil /\ trace[1].ok
     /\ Prefixed(existing) = {resourceGroupNamePrefix}
                             \cup {Sprintf(resourceGroupNamePrefix, i) : i \in 0..k})
    => resourceGroupName = Sprintf(resourceGroupNamePrefix, k + 1)

(***************************************************************************)
(* Properties of the provisioning run.                                     *)
(***************************************************************************)
\* positions of the trace that hold a remote call
CallsAt == {i \in 1..Len(trace) : trace[i].kind = "call"}
\* positions of the remote calls of operation op
CallsOf(op) == {i \in CallsAt : trace[i].op = op}
\* the creation calls of the stages that follow the resource group
LaterCreationOps ==
  {"CreateVirtualNetwork", "CreateSecurityGroup", "CreateSubnet", "CreateSecurityRule"}
CreationOps == {"CreateResourceGroup"} \cup LaterCreationOps
\* the exit code of the stage a creation call belongs to
StageExit(op) ==
  CASE op = "CreateResourceGroup" -> ExitResourceGroupCreationFailure
    [] op = "CreateVirtualNetwork" -> ExitVirtualNetworkCreationFailure
    [] op = "CreateSecurityGroup" -> ExitNetworkSecuritryGroupCreationFailure
    [] op = "CreateSubnet" -> ExitSubnetCreationFailure
    [] op = "CreateSecurityRule" -> ExitSecurityRuleCreationFailure
\* createResourceGroup returned a nil error: its create call was reported SUCCESS
ResourceGroupCreated ==
  \E i \in CallsOf("CreateResourceGroup") :
    i < Len(trace) /\ trace[i + 1].kind = "out" /\ trace[i + 1].op = "SUCCESS"
\* createResourceGroup returned an error: the listing failed, or the create
\* call returned an error and was reported FAILED
ResourceGroupCreationFailed ==
  \/ \E i \in CallsOf("List") : ~trace[i].ok
  \/ \E i \in CallsOf("CreateResourceGroup") :
       i < Len(trace) /\ trace[i + 1].kind = "out" /\ trace[i + 1].op = "FAILED"
\* the later-stage creation calls that failed (error or non-success status)
FailedLaterCreations == {i \in CallsAt : trace[i].op \in LaterCreationOps /\ ~trace[i].ok}
\* the operations of the creation and deletion calls, in issue order
RECURSIVE OpsFrom(_)
OpsFrom(t) ==
  IF t = <<>> THEN <<>>
  ELSE (IF Head(t).kind = "call" /\ Head(t).op \in CreationOps \cup {"DeleteResourceGroup"}
        THEN <<Head(t).op>> ELSE <<>>) \o OpsFrom(Tail(t))
Exited == pc = "exited"

\* C2: when the resource group was created and a later stage failed, exactly
\* one deletion call is issued and the exit code is that of the first failing
\* stage
C2_FailureExitCode ==
  (Exited /\ ResourceGroupCreated /\ FailedLaterCreations # {}) =>
    /\ Cardinality(CallsOf("DeleteResourceGroup")) = 1
    /\ \E f \in FailedLaterCreations :
         /\ \A g \in FailedLaterCreations : f <= g
         /\ exited = StageExit(trace[f].op)

\* C3: once a creation stage is reported FAILED, no creation call follows
C3_ShortCircuit ==
  \A i \in CallsAt, j \in CallsAt :
    (/\ trace[i].op \in CreationOps
     /\ trace[i + 1].kind = "out" /\ trace[i + 1].op = "FAILED"
     /\ i < j)
    => trace[j].op \notin CreationOps

\* C4: once createResourceGroup has succeeded, every exit of the run has issued
\* exactly one deletion, for the allocated name, after every other remote call;
\* no deletion is issued while main is still running
C4_CleanupExactlyOnce ==
  /\ (Exited /\ ResourceGroupCreated) =>
       /\ Cardinality(CallsOf("DeleteResourceGroup")) = 1
       /\ \A d \in CallsOf("DeleteResourceGroup") :
            /\ trace[d].rg = resourceGroupName
            /\ \A c \in CallsOf("CreateResourceGroup") : trace[d].rg = trace[c].rg
            /\ \A j \in CallsAt : j <= d
  /\ pc \notin {Return, "exited"} => CallsOf("DeleteResourceGroup") = {}
  /\ Cardinality(CallsOf("DeleteResourceGroup")) <= 1

\* a run that returned early from a later stage has exited with its deletion issued
C4_Witness ==
  /\ Exited /\ ResourceGroupCreated
  /\ exited = ExitSubnetCreationFailure
  /\ CallsOf("DeleteResourceGroup") # {}

\* C5: when resource-group creation fails, no deletion call and no call of a
\* later stage is ever issued
C5_NoCleanupWithoutGroup ==
  ResourceGroupCreationFailed =>
    \A i \in CallsAt : trace[i].op \in {"List", "CreateResourceGroup"}

\* the create call returned an error and the run has exited
C5_Witness ==
  /\ Exited
  /\ \E i \in CallsOf("CreateResourceGroup") : trace[i + 1].op = "FAILED"

\* C6: executeWithStatus reports FAILED exactly when the operation's error is
\* non-nil or its status is not 200, and SUCCESS otherwise
C6_ReportIffFailure ==
  exec # NoExec =>
    /\ exec.report \in {"SUCCESS", "FAILED"}
    /\ exec.report = "FAILED" <=> (exec.err # Nil \/ exec.status # StatusOK)
    /\ trace[Len(trace)].kind = "out" => trace[Len(trace)].op = exec.report

\* an operation that returned an error together with status 200 was reported FAILED
C6_Witness ==
  /\ exec.err # Nil /\ exec.status = StatusOK
  /\ exec.report = "FAILED"
  /\ trace[Len(trace)].op = "FAILED"

\* the run was let past the credential checks and every remote call succeeded
AllSucceeded ==
  /\ Exited /\ ~help /\ token # Nil
  /\ \A i \in CallsAt : trace[i].ok

\* C7 as stated: five security-rule creations
C7_FiveRules ==
  AllSucceeded =>
    /\ exited = ExitSuccess
    /\ OpsFrom(trace) =
         <<"CreateResourceGroup", "CreateVirtualNetwork",
           "CreateSecurityGroup", "CreateSecurityGroup",
           "CreateSubnet", "CreateSubnet",
           "CreateSecurityRule", "CreateSecurityRule", "CreateSecurityRule",
           "CreateSecurityRule", "CreateSecurityRule",
           "DeleteResourceGroup">>

\* C7: when the credentials are well-formed and every remote call succeeds, the
\* run exits with ExitSuccess after 1 resource-group, 1 virtual-network,
\* 2 security-group, 2 subnet and 4 security-rule creations and 1 resource-group
\* deletion, in that order
C7_SuccessSequence ==
  AllSucceeded =>
    /\ exited = ExitSuccess
    /\ OpsFrom(trace) =
         <<"CreateResourceGroup", "CreateVirtualNetwork",
           "CreateSecurityGroup", "CreateSecurityGroup",
           "CreateSubnet", "CreateSubnet",
           "CreateSecurityRule", "CreateSecurityRule", "CreateSecurityRule",
           "CreateSecurityRule",
           "DeleteResourceGroup">>

C7_Witness == AllSucceeded /\ CallsOf("DeleteResourceGroup") # {}

\* C8: when the resource group was created and the virtual-network creation
\* fails, the run exits with ExitVirtualNetworkCreationFailure after no
\* security-group, subnet or rule creation and exactly one deletion
C8_VirtualNetworkFailure ==
  (/\ Exited /\ ResourceGroupCreated
   /\ \E i \in CallsOf("CreateVirtualNetwork") : ~trace[i].ok) =>
    /\ exited = ExitVirtualNetworkCreationFailure
    /\ OpsFrom(trace) = <<"CreateResourceGroup", "CreateVirtualNetwork", "DeleteResourceGroup">>

\* a credential value is absent or an identifier is malformed
BadCredentials ==
  \/ tenantID = "" \/ subscriptionID = "" \/ clientID = "" \/ clientSecret = ""
  \/ ~guidParseOK(tenantID) \/ ~guidParseOK(subscriptionID) \/ ~guidParseOK(clientID)

\* C9 as stated: with a credential absent or malformed the run exits with
\* ExitAuthenticationFailure and issues no remote call
C9_AlwaysAuthenticationFailure ==
  (pc # "init" /\ BadCredentials) =>
    /\ CallsAt = {}
    /\ Exited => exited = ExitAuthenticationFailure

\* C9: with a credential absent or malformed the run issues no remote call, and
\* exits with ExitAuthenticationFailure unless the help flag is set
C9_NoRemoteCallWithoutCredentials ==
  (pc # "init" /\ BadCredentials) =>
    /\ CallsAt = {}
    /\ (Exited /\ ~help) => exited = ExitAuthenticationFailure

\* the tenant ID was absent, the other values well-formed, and the run exited
C9_Witness ==
  /\ Exited /\ ~help
  /\ tenantID = "" /\ subscriptionID = GuidD /\ clientID = GuidD /\ clientSecret # ""
  /\ exited = ExitAuthenticationFailure

(***************************************************************************)
(* Further properties of the name allocator.                               *)
(***************************************************************************)
\* the integer suffixes n for which prefix<n> is listed
Suffixes == {n \in 0..MaxSuffix : Sprintf(resourceGroupNamePrefix, n) \in Names(existing)}
\* the listing holds the bare prefix and, beside it, only names prefix<n>
OnlyNumbered ==
  Prefixed(existing) = {resourceGroupNamePrefix}
                       \cup {Sprintf(resourceGroupNamePrefix, n) : n \in Suffixes}
\* the smallest non-negative integer m with prefix<m> not listed
FirstMissing ==
  CHOOSE m \in 0..(MaxSuffix + 1) : m \notin Suffixes /\ \A k \in 0..(m - 1) : k \in Suffixes
\* a listing was allocated from after a successful (status 200) listing call
Allocated == pc = "allocated" /\ err = Nil /\ groupList.err = Nil /\ groupList.status = StatusOK

\* C11: when the listing holds the bare prefix and names prefix<n> whose
\* suffixes leave a gap, the allocated name is prefix<m>, m the smallest
\* integer whose name is not listed
C11_GapGivesFirstMissing ==
  (/\ Allocated /\ OnlyNumbered
   /\ \E n \in Suffixes : \E m \in 0..(n - 1) : m \notin Suffixes)
  => resourceGroupName = Sprintf(resourceGroupNamePrefix, FirstMissing)

\* C12: when no listed name equals the bare prefix, the allocated name is the
\* bare prefix, whatever suffixed names are listed
C12_FastPath ==
  (Allocated /\ resourceGroupNamePrefix \notin Names(existing))
  => resourceGroupName = resourceGroupNamePrefix

\* prefix0 is listed, the bare prefix is not, and the bare prefix was allocated
C12_Witness ==
  /\ Allocated
  /\ resourceGroupNamePrefix \notin Names(existing)
  /\ Sprintf(resourceGroupNamePrefix, 0) \in Names(existing)
  /\ resourceGroupName = resourceGroupNamePrefix

(***************************************************************************)
(* Further properties of the provisioning run.                             *)
(***************************************************************************)
\* C13: once main has returned, the deletion leaves exitStatus as the creation
\* phase set it, and os.Exit is called with that value, whatever the deletion
\* call returned
C13_DeletionKeepsExitStatus ==
  [][/\ pc = Return => exitStatus' = exitStatus
     /\ pc' = "exited" => exited' = exitStatus]_vars

\* a run whose deletion call failed has exited with ExitSuccess
C13_Witness ==
  /\ Exited /\ exited = ExitSuccess
  /\ \E d \in CallsOf("DeleteResourceGroup") : ~trace[d].ok

\* a termination signal reaches the process: no handler is installed and the
\* cancel channel of line 316 is never closed, so the process ends where it
\* stands, its deferred calls not run
terminated ==
  /\ pc \notin {"exited", "killed"}
  /\ pc' = "killed"
  /\ UNCHANGED <<flagVars, credVars, runVars>>

NextSignal == Next \/ terminated

SpecSignal == Init /\ [][NextSignal]_vars

\* C14: a run ended by a termination signal after createResourceGroup
\* succeeded has issued the deletion exactly once
C14_CleanupOnSignal ==
  (pc = "killed" /\ ResourceGroupCreated) => Cardinality(CallsOf("DeleteResourceGroup")) = 1

\* the creation calls of a run that passed every stage
AllCreations ==
  <<"CreateResourceGroup", "CreateVirtualNetwork",
    "CreateSecurityGroup", "CreateSecurityGroup",
    "CreateSubnet", "CreateSubnet",
    "CreateSecurityRule", "CreateSecurityRule", "CreateSecurityRule",
    "CreateSecurityRule">>
Waiting == pc \in {"wait", "Scanln", "Sleep"}

\* C15: the wait comes after every creation stage and before the deletion; with
\* the pause flag the run waits for the acknowledgement whatever the delay is,
\* else with delay > 0 it sleeps, else it goes on at once; the wait changes
\* neither the remote calls nor the exit status
C15_PostCreationWait ==
  /\ [](Waiting => OpsFrom(trace) = AllCreations)
  /\ [](pc = "Scanln" => pause)
  /\ [](pc = "Sleep" => ~pause /\ delay > 0)
  /\ [][pc = "wait" =>
          pc' = IF pause THEN "Scanln" ELSE IF delay > 0 THEN "Sleep" ELSE Return]_vars
  /\ [][Waiting => trace' = trace /\ exitStatus' = exitStatus]_vars
  /\ [][(~Waiting /\ Waiting') => (pc = "DENY-OUT" /\ pc' = "wait")]_vars

\* the run waits for the acknowledgement although a delay is set
C15_Witness == pc = "Scanln" /\ pause /\ delay > 0

\* C16: when the listing call returns an error, the allocator returns that
\* error and an empty name; when it returns no error but a status other than
\* 200, a "Bad response" error; in both cases no resource-group create call is
\* issued and main exits with ExitResourceGroupCreationFailure
C16_ListingFailure ==
  (groupList # NoList /\ ~(groupList.err = Nil /\ groupList.status = StatusOK)) =>
    /\ resourceGroupName = <<>>
    /\ err = IF groupList.err # Nil THEN groupList.err ELSE "Bad response"
    /\ err # Nil
    /\ CallsOf("CreateResourceGroup") = {}
    /\ pc \in {Return, "exited"}
    /\ exitStatus = ExitResourceGroupCreationFailure
    /\ Exited => exited = ExitResourceGroupCreationFailure

\* the listing returned no error with status 500 and the run has exited
C16_Witness ==
  /\ Exited
  /\ groupList.err = Nil /\ groupList.status = 500
  /\ err = "Bad response"

\* C17: with the help flag set the run uses no token, issues no remote call and
\* exits with ExitSuccess, whatever the credentials and the other flags are
C17_HelpDoesNothing ==
  (pc # "init" /\ help) =>
    /\ token = Nil
    /\ trace = <<>>
    /\ exitStatus = ExitSuccess
    /\ Exited => exited = ExitSuccess

\* help was set beside the pause flag, the tenant ID absent, and the run exited
C17_Witness == Exited /\ help /\ pause /\ tenantID = "" /\ exited = ExitSuccess

\* C18: a subnet creation follows a successful virtual-network creation and a
\* successful creation of the security group it references; a rule creation
\* follows a successful creation of its security group
C18_InterTierDependency ==
  \A j \in CallsAt :
    /\ trace[j].op = "CreateSubnet" =>
         /\ \E i \in CallsOf("CreateVirtualNetwork") : i < j /\ trace[i].ok
         /\ \E i \in CallsOf("CreateSecurityGroup") :
              i < j /\ trace[i].name = trace[j].nsg /\ trace[i].ok
    /\ trace[j].op = "CreateSecurityRule" =>
         \E i \in CallsOf("CreateSecurityGroup") :
           i < j /\ trace[i].name = trace[j].nsg /\ trace[i].ok

RuleCalls == CallsOf("CreateSecurityRule")

\* C19: an error of the first rule creation ends the run with
\* ExitSecurityRuleCreationFailure and no further rule creation; the outcome of
\* a later rule creation changes neither the rule creations that follow nor the
\* exit status, which stays ExitSuccess
C19_OnlyFirstRuleChecked ==
  /\ [][pc = "ALLOW-SSH" =>
          IF exec'.err # Nil
          THEN pc' = Return /\ exitStatus' = ExitSecurityRuleCreationFailure
          ELSE pc' = "ALLOW-HTTP" /\ exitStatus' = exitStatus]_vars
  /\ [][pc = "ALLOW-HTTP" => pc' = "ALLOW-SQL" /\ exitStatus' = exitStatus]_vars
  /\ [][pc = "ALLOW-SQL" => pc' = "DENY-OUT" /\ exitStatus' = exitStatus]_vars
  /\ [][pc = "DENY-OUT" => pc' = "wait" /\ exitStatus' = exitStatus]_vars
  /\ []((Exited /\ Cardinality(RuleCalls) = 1) => exited = ExitSecurityRuleCreationFailure)
  /\ []((Exited /\ Cardinality(RuleCalls) >= 2) =>
          Cardinality(RuleCalls) = 4 /\ exited = ExitSuccess)

\* the second rule creation failed, all four were issued, the run exited with
\* ExitSuccess
C19_Witness ==
  /\ Exited /\ exited = ExitSuccess
  /\ Cardinality(RuleCalls) = 4
  /\ \E i \in RuleCalls : trace[i].name = "ALLOW-HTTP" /\ ~trace[i].ok

\* the operations that go through executeWithStatus
ExecutorOps == LaterCreationOps \cup {"DeleteResourceGroup"}
IsReport(e) == e.kind = "out" /\ e.op \in {"SUCCESS", "FAILED"}
IsMarker(e) == e.kind = "out" /\ e.op \notin {"SUCCESS", "FAILED"}

\* C20: every call made through executeWithStatus stands between its marker
\* and exactly one report, and no creation or deletion call is issued twice
C20_OnceBetweenMarkerAndReport ==
  /\ \A i \in CallsAt :
       trace[i].op \in ExecutorOps =>
         /\ i > 1 /\ IsMarker(trace[i - 1])
         /\ i < Len(trace) /\ IsReport(trace[i + 1])
         /\ i + 2 <= Len(trace) => ~IsReport(trace[i + 2])
  /\ \A i \in 1..Len(trace) :
       (IsMarker(trace[i]) /\ trace[i].op # "Creating Resource Group...") =>
         /\ i + 2 <= Len(trace)
         /\ trace[i + 1].kind = "call" /\ trace[i + 1].op \in ExecutorOps
         /\ IsReport(trace[i + 2])
  /\ \A i \in CallsAt, j \in CallsAt :
       (/\ i # j
        /\ trace[i].op \in CreationOps \cup {"DeleteResourceGroup"}
        /\ trace[i].op = trace[j].op)
       => <<trace[i].nsg, trace[i].name>> # <<trace[j].nsg, trace[j].name>>

\* a subnet creation failed, was reported FAILED once, and the run has exited
C20_Witness ==
  /\ Exited
  /\ \E i \in CallsOf("CreateSubnet") :
       ~trace[i].ok /\ trace[i + 1].op = "FAILED" /\ IsMarker(trace[i - 1])

(***************************************************************************)
(* Security rules, security groups and what executeWithStatus returns.     *)
(***************************************************************************)
\* C21 as stated: two distinct rules of one security group have distinct
\* priorities
C21_DistinctPrioritiesInGroup ==
  \A i \in RuleCalls, j \in RuleCalls :
    (i # j /\ trace[i].nsg = trace[j].nsg) => trace[i].prio # trace[j].prio

\* C21: two distinct rules of one security group and one direction have
\* distinct priorities
C21_DistinctPrioritiesInDirection ==
  \A i \in RuleCalls, j \in RuleCalls :
    (/\ i # j /\ trace[i].nsg = trace[j].nsg
     /\ ruleDirection(trace[i].name) = ruleDirection(trace[j].name))
    => trace[i].prio # trace[j].prio

\* all four rules were created; the two inbound frontend rules differ in priority
C21_Witness ==
  /\ Cardinality(RuleCalls) = 4
  /\ \E i \in RuleCalls, j \in RuleCalls :
       /\ i # j /\ trace[i].nsg = "frontend" /\ trace[j].nsg = "frontend"
       /\ ruleDirection(trace[i].name) = ruleDirection(trace[j].name)
       /\ trace[i].prio # trace[j].prio

\* a step of a security-group stage ends with the Get, whose error alone
\* decides how main goes on
SecurityGroupStep ==
  pc \in {"frontEndNSG", "backEndNSG"} =>
    LET g == trace'[Len(trace')] IN
    /\ g.op = "GetSecurityGroup"
    /\ IF g.ok
       THEN /\ err' = Nil /\ exitStatus' = exitStatus
            /\ pc' = IF pc = "frontEndNSG" THEN "backEndNSG" ELSE "frontendSubnet"
       ELSE /\ err' # Nil /\ pc' = Return
            /\ exitStatus' = ExitNetworkSecuritryGroupCreationFailure

\* C24: every security-group create call is followed by a Get of that group,
\* whatever the create call returned, and main sees the stage as failed exactly
\* when the Get returned an error
C24_GetDecidesSecurityGroupStage ==
  /\ [](\A i \in CallsOf("CreateSecurityGroup") :
          /\ i + 2 <= Len(trace)
          /\ trace[i + 2].kind = "call" /\ trace[i + 2].op = "GetSecurityGroup"
          /\ trace[i + 2].name = trace[i].name /\ trace[i + 2].rg = trace[i].rg)
  /\ [][SecurityGroupStep]_vars

\* the frontend create call failed, its Get succeeded, and the run went on to
\* the backend security group
C24_Witness ==
  \E i \in CallsOf("CreateSecurityGroup"), j \in CallsOf("CreateSecurityGroup") :
    /\ trace[i].name = "frontend" /\ ~trace[i].ok /\ trace[i + 2].ok
    /\ trace[j].name = "backend" /\ i < j

\* a stage that assigns the executor's error to err leaves main exactly when
\* the operation returned an error
CheckedStageStep ==
  pc \in {"createVirtualNetwork", "frontendSubnet", "backendSubnet", "ALLOW-SSH"} =>
    /\ err' = exec'.err
    /\ pc' = Return <=> exec'.err # Nil

\* C25: executeWithStatus returns the error and status the operation returned,
\* so an operation that returns a nil error with a status other than 200 is
\* reported FAILED while the caller receives a nil error
C25_ExecutorReturnsOperationResult ==
  /\ [](exec # NoExec =>
          /\ exec.retErr = exec.err /\ exec.retStatus = exec.status
          /\ (exec.err = Nil /\ exec.status # StatusOK) =>
               (exec.report = "FAILED" /\ exec.retErr = Nil))
  /\ [][CheckedStageStep]_vars

\* the frontend subnet creation returned a nil error with status 500, was
\* reported FAILED, and main went on to the backend subnet
C25_Witness ==
  /\ pc = "backendSubnet"
  /\ exec.label = "Creating Subnet" /\ exec.err = Nil /\ exec.status = 500
  /\ exec.report = "FAILED" /\ err = Nil

(***************************************************************************)
(* The first program variant (lines 1-225): init, main and its deferred    *)
(* deletion.  main returns normally, so the process exits with status 0.   *)
(***************************************************************************)
\* "VMsampleResourceGroup", the resource group named at line 77
VMsampleResourceGroup ==
  <<86, 77, 115, 97, 109, 112, 108, 101, 82, 101, 115, 111, 117, 114, 99, 101,
    71, 114, 111, 117, 112>>

InitFirst ==
  /\ pc = "first_init"
  /\ help = FALSE /\ pause = FALSE /\ delay = 0
  /\ tenantID = "" /\ subscriptionID = "" /\ clientID = "" /\ clientSecret = ""
  /\ token = Nil
  /\ successfulInit = FALSE
  /\ output = Nil
  /\ existing \in MainListings
  /\ groupList = NoList
  /\ exitStatus = ExitSuccess
  /\ err = Nil
  /\ resourceGroupName = <<>>
  /\ defers = <<>>
  /\ trace = <<>>
  /\ exec = NoExec
  /\ exited = -1

\* validateParameters of the first variant (lines 152-188): the same three
\* identifier branches and the secret test
first_validateParameters(t, s, c, secret) ==
  LET branch(v, n) ==
        IF v = "" THEN [errs |-> <<"missing " \o n>>, val |-> v]
        ELSE IF ~guidParseOK(v) THEN [errs |-> <<"guid.Parse error " \o n>>, val |-> v]
        ELSE [errs |-> <<>>, val |-> Stringf(v)]
      vt == branch(t, "AZURE_TENANT_ID")
      vs == branch(s, "AZURE_SUBSCRIPTION_ID")
      vc == branch(c, "AZURE_CLIENT_ID")
      se == IF secret = "" THEN <<"missing AZURE_CLIENT_SECRET">> ELSE <<>>
  IN  [errs |-> vt.errs \o vs.errs \o vc.errs \o se,
       tenantID |-> vt.val, subscriptionID |-> vs.val, clientID |-> vc.val]

\* init of the first variant (lines 84-114): successfulInit is set only when
\* the credentials are valid and the token was obtained
first_init ==
  /\ pc = "first_init"
  /\ \E t \in IdValues, s \in IdValues, c \in IdValues, secret \in SecretValues,
        authErr \in {Nil, "oauth config error", "token error"} :
       LET v == first_validateParameters(t, s, c, secret)
           ok == Len(v.errs) = 0 /\ authErr = Nil
       IN  /\ clientSecret' = secret
           /\ tenantID' = v.tenantID
           /\ subscriptionID' = v.subscriptionID
           /\ clientID' = v.clientID
           /\ token' = IF ok THEN "ServicePrincipalToken" ELSE Nil
           /\ successfulInit' = ok
  /\ pc' = "first_main"
  /\ UNCHANGED <<flagVars, output, runVars>>

\* what a remote call may return: without a token the request cannot be
\* authorised, the call is made and returns an error
first_Outcomes(tok) == IF tok = Nil THEN {o \in Outcomes : o.err # Nil} ELSE Outcomes

\* createResourceGroup of the first variant (lines 116-138): the name is
\* returned also when the create call returned an error
first_createResourceGroup(lo, value, co) ==
  LET u == getResourceGroupName(lo.err, lo.status, value)
      list == Call("List", <<>>, "", "", "", 0, Succeeded(lo))
  IN  IF u.err # Nil
      THEN [name |-> u.name, err |-> u.err, events |-> <<list>>]
      ELSE [name |-> u.name, err |-> co.err,
            events |-> <<list,
                         Out("Creating Resource Group...", u.name, ""),
                         Call("CreateResourceGroup", u.name, "", "", "", 0, Succeeded(co)),
                         Out(IF co.err = Nil THEN "SUCCESS" ELSE "FAILED", u.name, "")>>]

\* main of the first variant, lines 54-61: successfulInit is not read; the
\* deletion is deferred when createResourceGroup returned no error
first_main_createResourceGroup ==
  /\ pc = "first_main"
  /\ \E lo \in first_Outcomes(token), co \in first_Outcomes(token) :
       LET r == first_createResourceGroup(lo, existing, co) IN
       /\ groupList' = lo
       /\ trace' = trace \o r.events
       /\ resourceGroupName' = r.name
       /\ err' = r.err
       /\ IF r.err = Nil
          THEN /\ defers' = Append(defers, [fn |-> "deleteResourceGroup", name |-> r.name])
               /\ pc' = "first_createVirtualNetwork"
          ELSE /\ defers' = defers
               /\ pc' = "first_return"
  /\ UNCHANGED <<flagVars, credVars, existing, exitStatus, exec, exited>>

\* main of the first variant, lines 63-75: the virtual network is created in
\* the new resource group; main goes on whatever the call returned
first_main_createVirtualNetwork ==
  /\ pc = "first_createVirtualNetwork"
  /\ \E o \in first_Outcomes(token) :
       trace' = trace
                \o <<Call("CreateVirtualNetwork", resourceGroupName, networkName, "",
                          networkName, 0, Succeeded(o))>>
                \o (IF Succeeded(o)
                    THEN <<Out("Finished creating new Azure Virtual Network.",
                               resourceGroupName, networkName)>>
                    ELSE <<>>)
  /\ pc' = "first_deleteVirtualNetwork"
  /\ UNCHANGED <<flagVars, credVars, existing, groupList, exitStatus, err,
                 resourceGroupName, defers, exec, exited>>

\* main of the first variant, lines 77-81: vNetClient.Delete of
\* sampleVirtualNetwork in the resource group "VMsampleResourceGroup"
first_main_deleteVirtualNetwork ==
  /\ pc = "first_deleteVirtualNetwork"
  /\ \E o \in first_Outcomes(token) :
       trace' = trace
                \o <<Call("DeleteVirtualNetwork", VMsampleResourceGroup, networkName, "",
                          networkName, 0, Succeeded(o))>>
                \o (IF Succeeded(o)
                    THEN <<Out("Finished deleting Azure Virtual Network.",
                               VMsampleResourceGroup, networkName)>>
                    ELSE <<>>)
  /\ pc' = "first_return"
  /\ UNCHANGED <<flagVars, credVars, existing, groupList, exitStatus, err,
                 resourceGroupName, defers, exec, exited>>

\* the deferred deleteResourceGroup of the first variant (lines 58, 140-150)
first_deferred_deleteResourceGroup ==
  /\ pc = "first_return"
  /\ defers # <<>>
  /\ \E o \in first_Outcomes(token) :
       LET name == defers[Len(defers)].name IN
       trace' = trace
                \o <<Out("Deleting Resource Group...", name, ""),
                     Call("DeleteResourceGroup", name, "", "", "", 0, Succeeded(o)),
                     Out(IF Succeeded(o) THEN "SUCCESS" ELSE "FAILED", name, "")>>
  /\ defers' = SubSeq(defers, 1, Len(defers) - 1)
  /\ UNCHANGED <<pc, flagVars, credVars, existing, groupList, exitStatus, err,
                 resourceGroupName, exec, exited>>

\* main of the first variant has returned and its deferred call has run: the
\* process exits with status 0
first_exit ==
  /\ pc = "first_return"
  /\ defers = <<>>
  /\ exited' = 0
  /\ pc' = "exited"
  /\ UNCHANGED <<flagVars, credVars, existing, groupList, exitStatus, err,
                 resourceGroupName, defers, trace, exec>>

NextFirst ==
  \/ first_init
  \/ first_main_createResourceGroup
  \/ first_main_createVirtualNetwork
  \/ first_main_deleteVirtualNetwork
  \/ first_deferred_deleteResourceGroup
  \/ first_exit

SpecFirst == InitFirst /\ [][NextFirst]_vars

\* the calls that delete a resource
DeleteOps == {"DeleteResourceGroup", "DeleteVirtualNetwork"}

\* C22: no run of either variant deletes the virtual network on its own: every
\* delete call is the deletion of the resource group the run created, under
\* the allocated name
C22_OnlyResourceGroupDeleted ==
  \A i \in CallsAt :
    trace[i].op \in DeleteOps =>
      /\ trace[i].op = "DeleteResourceGroup"
      /\ trace[i].rg = resourceGroupName
      /\ \E c \in CallsOf("CreateResourceGroup") : c < i /\ trace[c].rg = trace[i].rg

\* C23: in the first variant a remote call is attempted only after init
\* completed with successfulInit true: four valid credential values and a token
C23_NoRemoteCallWithoutInit ==
  CallsAt # {} => (successfulInit /\ token # Nil /\ ~BadCredentials)

====
